---- MODULE Spec2Model ----
(***************************************************************************)
(* Catalog and plan-resolution engine of the Atlas service broker          *)
(* (pkg/broker/services.go, pkg/broker/broker.go).                         *)
(*                                                                         *)
(* Strings are sequences of one-character strings, so that lower-casing,   *)
(* the forbidden-symbol regexp and fmt.Sprintf concatenation are computed  *)
(* as the Go code computes them.                                           *)
(***************************************************************************)
EXTENDS Integers, Sequences, FiniteSets, TLC

(* ----------------------------- bounds --------------------------------- *)

\* Number of request goroutines served concurrently by the HTTP layer.
NumRequests == 2

\* Longest string handed to normalizeID.
MaxLen == 3

(* ----------------------------- strings -------------------------------- *)

UpperChars ==
    <<"A","B","C","D","E","F","G","H","I","J","K","L","M",
      "N","O","P","Q","R","S","T","U","V","W","X","Y","Z">>

LowerChars ==
    <<"a","b","c","d","e","f","g","h","i","j","k","l","m",
      "n","o","p","q","r","s","t","u","v","w","x","y","z">>

Digits == {"0","1","2","3","4","5","6","7","8","9"}

Range(s) == {s[i] : i \in 1..Len(s)}

\* strings.ToLower on one character
ToLowerChar(c) ==
    IF c \in Range(UpperChars)
    THEN LowerChars[CHOOSE i \in 1..Len(UpperChars) : UpperChars[i] = c]
    ELSE c

\* strings.ToLower
ToLower(s) == [i \in 1..Len(s) |-> ToLowerChar(s[i])]

\* The complement of the class of forbiddenSymbols: [-a-zA-Z0-9]
AllowedChar(c) ==
    c = "-" \/ c \in Range(LowerChars) \/ c \in Range(UpperChars) \/ c \in Digits

\* forbiddenSymbols.ReplaceAllString(id, "_"): every maximal run of
\* characters outside [-a-zA-Z0-9] becomes one "_".
RECURSIVE ReplaceForbidden(_)
ReplaceForbidden(s) ==
    IF s = <<>> THEN <<>>
    ELSE IF AllowedChar(Head(s)) THEN <<Head(s)>> \o ReplaceForbidden(Tail(s))
    ELSE IF Len(s) > 1 /\ ~AllowedChar(s[2]) THEN ReplaceForbidden(Tail(s))
    ELSE <<"_">> \o ReplaceForbidden(Tail(s))

\* a normalisation that keeps the case of the letters
normalizeIDKeepCase(id) == ReplaceForbidden(id)

normalizeID(id) == ToLower(ReplaceForbidden(id))

(* --------------------------- identifiers ------------------------------ *)

idPrefix == <<"a","o","s","b","-","c","l","u","s","t","e","r">>

AWS    == <<"A","W","S">>
GCP    == <<"G","C","P">>
AZURE  == <<"A","Z","U","R","E">>
TENANT == <<"T","E","N","A","N","T">>

providerNames == <<AWS, GCP, AZURE, TENANT>>

\* fmt.Sprintf("%s-service-%s", idPrefix, strings.ToLower(providerName))
serviceIDForProvider(providerName) ==
    idPrefix \o <<"-","s","e","r","v","i","c","e","-">> \o ToLower(providerName)

\* fmt.Sprintf("%s-plan-%s-%s", idPrefix, lower(provider), lower(size)),
\* followed by "-" and the group ID when the group ID is not empty.
planIDForInstanceSize(providerName, instanceSizeName, groupID) ==
    LET result == idPrefix \o <<"-","p","l","a","n","-">> \o ToLower(providerName)
                    \o <<"-">> \o ToLower(instanceSizeName)
    IN  IF groupID = <<>> THEN result ELSE result \o <<"-">> \o groupID

\* fmt.Sprintf("%s-plan-%s-%s", idPrefix, lower(provider), lower(planName))
planIDForDynamicPlan(providerName, planName) ==
    idPrefix \o <<"-","p","l","a","n","-">> \o ToLower(providerName)
        \o <<"-">> \o ToLower(planName)

(* ------------------------- small string values ------------------------ *)

M1  == <<"M","1">>
M2  == <<"M","2">>
M5  == <<"M","5">>
M1a == <<"M","1","-","a">>

\* tenant (group / project) identifiers used as keys of Credentials.Projects
Gb  == <<"b">>
Gab == <<"a","-","b">>
Gzz == <<"z","z">>

\* a tenant description holding a run of forbidden symbols and upper case
DescAc == <<"A"," ","."," ","c">>

\* names of dynamic plans
PlanP  == <<"P","1">>
Planp  == <<"p","1">>
PlanQ  == <<"Q">>

Perms(S) == {s \in [1..Cardinality(S) -> S] : \A i, j \in 1..Cardinality(S) : s[i] = s[j] => i = j}

RECURSIVE ConcatAll(_)
ConcatAll(ss) == IF ss = <<>> THEN <<>> ELSE Head(ss) \o ConcatAll(Tail(ss))

(* ----------------------------- state ---------------------------------- *)

VARIABLES
    mode,         \* Broker.mode
    whitelist,    \* Broker.whitelist: [nil |-> BOOLEAN, m |-> provider name -> plan names]
    credentials,  \* Broker.credentials.Projects: group ID -> [Desc, PublicKey, PrivateKey]
    backend,      \* the backend's answer to GetProvider: provider name -> set of instance size names
    templates,    \* the plan templates dynamicplans.FromEnv returns, in order
    catalog,      \* Broker.catalog: [nil, services, plans, providers]
    proc,         \* the process: "new" (inside New), "up", "literal", "exited", "crashed"
    pc,           \* position of each goroutine
    idx,          \* buildCatalog's loop position of each goroutine
    emitted,      \* what the buildCatalog call a goroutine runs has appended so far
    fetches,      \* number of GetProvider calls per provider name
    builds,       \* [started, failed, ok]: buildCatalog calls of a broker built without New
    built,        \* the outputs of the buildCatalog calls that returned nil
    last,         \* the result of the request that returned last
    idq           \* arguments and results of a computation of an identifier

vars == <<mode, whitelist, credentials, backend, templates, catalog, proc, pc, idx,
          emitted, fetches, builds, built, last, idq>>

config == <<mode, whitelist, credentials, backend, templates>>

Modes == {"BasicAuth", "MultiGroup", "MultiGroupAutoPlans", "DynamicPlans"}

FetchedProviders == {AWS, GCP, AZURE}

(* ------------------------- dynamic plan templates --------------------- *)

\* A template is described by what executing and decoding it yields:
\*   kind      "ok", "execfail" (Execute returns an error), "decodefail"
\*   planName  the rendered name
\*   provFrom  "none" (no providerName), "fixed" (provider), "ctx"
\*             (.Cluster.ProviderSettings.ProviderName of the context)
\*   cluster   whether the rendered plan has cluster.providerSettings
\*   size      the rendered instanceSizeName, <<>> when absent
\*   project   "nil" (no project section), "empty" (no id), "fixed"
\*             (projectID), "ctx" (.Project.ID of the context)
Tpl(tname, kind, planName, provFrom, provider, size, project, projectID) ==
    [tname |-> tname, kind |-> kind, planName |-> planName, provFrom |-> provFrom,
     provider |-> provider, cluster |-> TRUE, size |-> size, project |-> project,
     projectID |-> projectID]

NoTemplate == Tpl("", "none", <<>>, "none", <<>>, <<>>, "nil", <<>>)

\* dynamicplans.Context: the provider override and the project ID are the
\* fields the broker sets or reads; Credentials is the broker's own object.
DefaultCtx(creds) == [providerName |-> <<>>, projectID |-> <<>>, creds |-> creds]

\* template.Execute followed by yaml Decode into dynamicplans.Plan
Render(tpl, ctx) ==
    [err |-> CASE tpl.kind = "execfail"   -> "exec"
               [] tpl.kind = "decodefail" -> "decode"
               [] OTHER                   -> "",
     Name |-> tpl.planName,
     hasCluster |-> tpl.cluster,
     ProviderName |-> CASE tpl.provFrom = "fixed" -> tpl.provider
                        [] tpl.provFrom = "ctx"   -> ctx.providerName
                        [] OTHER                  -> <<>>,
     InstanceSizeName |-> tpl.size,
     hasProject |-> tpl.project # "nil",
     ProjectID |-> CASE tpl.project = "fixed" -> tpl.projectID
                     [] tpl.project = "ctx"   -> ctx.projectID
                     [] OTHER                 -> <<>>]

(* ------------------------------ plans --------------------------------- *)

\* domain.ServicePlan with the AdditionalMetadata the broker stores
ServicePlan(id, name, hasMeta, hasGroup, groupID, tpl, size) ==
    [ID |-> id, Name |-> name, hasMeta |-> hasMeta, hasGroupID |-> hasGroup,
     groupID |-> groupID, template |-> tpl, instanceSize |-> size]

Provider(name) == [Name |-> name, InstanceSizes |-> backend[name]]

\* plan IDs that carry the position of the size in the iteration
buildPlansStaticByPosition(provider, sizeOrd) ==
    [i \in 1..Len(sizeOrd) |->
        ServicePlan(planIDForInstanceSize(provider.Name, sizeOrd[i], [k \in 1..i |-> "i"]),
                    sizeOrd[i], TRUE, FALSE, <<>>, NoTemplate, sizeOrd[i])]

\* sizeOrd is the order in which range visits the map provider.InstanceSizes
buildPlansForProviderStatic(provider, sizeOrd) ==
    [i \in 1..Len(sizeOrd) |->
        ServicePlan(planIDForInstanceSize(provider.Name, sizeOrd[i], <<>>),
                    sizeOrd[i], TRUE, FALSE, <<>>, NoTemplate, sizeOrd[i])]

\* the plan of one (instance size, project) pair
AutoPlan(provider, size, groupID) ==
    LET key == credentials[groupID]
        id  == IF key.Desc # <<>> THEN normalizeID(key.Desc) ELSE groupID
    IN  ServicePlan(planIDForInstanceSize(provider.Name, size, groupID),
                    size \o <<"-">> \o id, TRUE, TRUE, groupID, NoTemplate, size)

\* projOrd[i] is the order in which the inner range visits the map
\* credentials.Projects during the i-th instance size
buildPlansForProviderAuto(provider, sizeOrd, projOrd) ==
    ConcatAll([i \in 1..Len(sizeOrd) |->
                 [j \in 1..Len(projOrd[i]) |-> AutoPlan(provider, sizeOrd[i], projOrd[i][j])]])

\* a validity check that does not compare the rendered provider name
DynamicEmitsAnywhere(provider, tpl) ==
    LET ctx == [DefaultCtx(credentials) EXCEPT !.providerName = provider.Name]
        p   == Render(tpl, ctx)
    IN  p.err = "" /\ p.hasCluster /\ p.InstanceSizeName # <<>>

\* whether a template yields a plan for the provider
DynamicEmits(provider, tpl) ==
    LET ctx == [DefaultCtx(credentials) EXCEPT !.providerName = provider.Name]
        p   == Render(tpl, ctx)
    IN  /\ p.err = ""
        /\ p.hasCluster
        /\ p.InstanceSizeName # <<>>
        /\ ~(p.ProviderName # <<>> /\ p.ProviderName # provider.Name)

DynamicPlan(provider, tpl) ==
    LET ctx == [DefaultCtx(credentials) EXCEPT !.providerName = provider.Name]
        p   == Render(tpl, ctx)
    IN  ServicePlan(planIDForDynamicPlan(provider.Name, p.Name), p.Name, TRUE, FALSE,
                    <<>>, tpl,
                    IF p.InstanceSizeName \in provider.InstanceSizes
                    THEN p.InstanceSizeName ELSE <<>>)

RECURSIVE DynamicLoopAbort(_, _)
\* a loop that returns at the first template that yields no plan
DynamicLoopAbort(provider, tpls) ==
    IF tpls = <<>> \/ ~DynamicEmits(provider, Head(tpls)) THEN <<>>
    ELSE <<DynamicPlan(provider, Head(tpls))>> \o DynamicLoopAbort(provider, Tail(tpls))

RECURSIVE DynamicLoop(_, _)
DynamicLoop(provider, tpls) ==
    IF tpls = <<>> THEN <<>>
    ELSE (IF DynamicEmits(provider, Head(tpls))
          THEN <<DynamicPlan(provider, Head(tpls))>> ELSE <<>>)
         \o DynamicLoop(provider, Tail(tpls))

buildPlansForProviderDynamic(provider) == DynamicLoop(provider, templates)

\* the modes in which buildPlansForProvider panics
PlansPanic == mode \notin {"BasicAuth", "MultiGroupAutoPlans", "DynamicPlans"}

buildPlansForProvider(provider, sizeOrd, projOrd) ==
    CASE mode = "BasicAuth"           -> buildPlansForProviderStatic(provider, sizeOrd)
      [] mode = "MultiGroupAutoPlans" -> buildPlansForProviderAuto(provider, sizeOrd, projOrd)
      [] mode = "DynamicPlans"        -> buildPlansForProviderDynamic(provider)
      [] OTHER                        -> <<>>

buildService(provider, sizeOrd, projOrd) ==
    [ID |-> serviceIDForProvider(provider.Name),
     Name |-> <<"m","o","n","g","o","d","b","-","a","t","l","a","s","-">>
                \o ToLower(provider.Name),
     Plans |-> buildPlansForProvider(provider, sizeOrd, projOrd)]

sharedService ==
    [ID |-> <<"a","o","s","b","-","c","l","u","s","t","e","r","-",
              "s","e","r","v","i","c","e","-","t","e","n","a","n","t">>,
     Name |-> <<"m","o","n","g","o","d","b","-","a","t","l","a","s","-",
                "t","e","n","a","n","t">>,
     Plans |-> <<
        ServicePlan(<<"a","o","s","b","-","c","l","u","s","t","e","r","-",
                      "p","l","a","n","-","t","e","n","a","n","t","-","m","2">>,
                    M2, FALSE, FALSE, <<>>, NoTemplate, <<>>),
        ServicePlan(<<"a","o","s","b","-","c","l","u","s","t","e","r","-",
                      "p","l","a","n","-","t","e","n","a","n","t","-","m","5">>,
                    M5, FALSE, FALSE, <<>>, NoTemplate, <<>>) >>]

(* ----------------------------- catalog -------------------------------- *)

NilCatalog == [nil |-> TRUE, services |-> <<>>, plans |-> <<>>, providers |-> {}]

newCatalog == [nil |-> FALSE, services |-> <<>>, plans |-> <<>>, providers |-> {}]

\* keep only the plans whose name is whitelisted
applyWhitelist(plans, whitelistedPlans) ==
    SelectSeq(plans, LAMBDA p : p.Name \in Range(whitelistedPlans))

\* m[k] = v on a Go map
MapPut(m, k, v) == [x \in (DOMAIN m) \cup {k} |-> IF x = k THEN v ELSE m[x]]

\* for _, p := range svc.Plans { b.catalog.plans[p.ID] = p }
RECURSIVE IndexPlans(_, _)
IndexPlans(m, plans) ==
    IF plans = <<>> THEN m
    ELSE IndexPlans(MapPut(m, Head(plans).ID, Head(plans)), Tail(plans))

(* ----------------------- instance metadata store ---------------------- *)

\* What GetInstance finds for an instance ID: no document (a new instance),
\* another failure of the store, or a document, with or without a groupID.
Doc(err, hasGroupID, groupID) == [err |-> err, hasGroupID |-> hasGroupID, groupID |-> groupID]

Instances == {"i_new", "i_b", "i_zz", "i_nogid", "i_down"}

getInstanceState(instanceID) ==
    CASE instanceID = "i_new"   -> Doc("ErrNoDocuments", FALSE, <<>>)
      [] instanceID = "i_b"     -> Doc("", TRUE, Gb)
      [] instanceID = "i_zz"    -> Doc("", TRUE, Gzz)
      [] instanceID = "i_nogid" -> Doc("", FALSE, <<>>)
      [] OTHER                  -> Doc("store", FALSE, <<>>)

\* returns [err, gid]
getGroupIDByInstanceID(instanceID) ==
    LET s == getInstanceState(instanceID)
    IN  IF s.err # ""
        THEN (IF s.err = "ErrNoDocuments" THEN [err |-> "", gid |-> <<>>]
              ELSE [err |-> s.err, gid |-> <<>>])
        ELSE IF ~s.hasGroupID THEN [err |-> "metadata", gid |-> <<>>]
        ELSE [err |-> "", gid |-> s.groupID]

(* --------------------------- request parameters ----------------------- *)

\* rawParams: "empty" (length 0), "bad" (not JSON), "object" (a JSON object,
\* with project.id = projectID when projectID is not empty), "creds" (a JSON
\* object with a credentials member naming the project projectID)
Raw(kind, projectID) == [kind |-> kind, projectID |-> projectID]

RawParams ==
    {Raw("empty", <<>>), Raw("bad", <<>>), Raw("object", <<>>),
     Raw("object", Gb), Raw("object", Gzz), Raw("creds", Gzz)}

\* json.Unmarshal(rawParams, &params): returns [err, ctx]
Unmarshal(rawParams, ctx) ==
    CASE rawParams.kind = "bad"    -> [err |-> "json", ctx |-> ctx]
      [] rawParams.kind = "object" ->
            [err |-> "", ctx |-> [ctx EXCEPT !.projectID = rawParams.projectID]]
      [] OTHER                     -> [err |-> "", ctx |-> ctx]

\* a decode that follows the context's reference to the broker's credentials
\* and stores the credentials member of the parameters there
ParamsCtxShared(rawParams) ==
    IF rawParams.kind = "creds"
    THEN [err |-> "",
          ctx |-> [DefaultCtx(credentials) EXCEPT
                     !.creds = [g \in (DOMAIN credentials) \cup {rawParams.projectID} |->
                                  IF g = rawParams.projectID
                                  THEN [Desc |-> <<>>, PublicKey |-> "pub_raw",
                                        PrivateKey |-> "priv_raw"]
                                  ELSE credentials[g]]]]
    ELSE IF rawParams.kind # "empty"
    THEN Unmarshal(rawParams, DefaultCtx(credentials))
    ELSE [err |-> "", ctx |-> DefaultCtx(credentials)]

\* params := dynamicplans.DefaultCtx(b.credentials), then, if len(rawParams) > 0,
\* json.Unmarshal(rawParams, &params): returns [err, ctx]
ParamsCtx(rawParams) ==
    IF rawParams.kind # "empty"
    THEN Unmarshal(rawParams, DefaultCtx(credentials))
    ELSE [err |-> "", ctx |-> DefaultCtx(credentials)]

(* ------------------------------ getClient ----------------------------- *)

NoKeys == [PublicKey |-> "", PrivateKey |-> ""]

\* the outcome of a resolution step: err "" means the step succeeded
Step(err, gid, creds, used) == [err |-> err, gid |-> gid, creds |-> creds, used |-> used]

\* catalog.findGroupIDByPlanID: reverse lookup of the group ID an
\* auto-generated plan carries
findGroupIDByPlanID(planID) ==
    IF catalog.nil THEN [err |-> "panic", gid |-> <<>>]
    ELSE IF planID \notin DOMAIN catalog.plans THEN [err |-> "UnknownPlan", gid |-> <<>>]
    ELSE IF ~catalog.plans[planID].hasMeta THEN [err |-> "panic", gid |-> <<>>]
    ELSE IF ~catalog.plans[planID].hasGroupID THEN [err |-> "nogroup", gid |-> <<>>]
    ELSE [err |-> "", gid |-> catalog.plans[planID].groupID]

\* Broker.parsePlan: returns [err, dp, creds]
parsePlan(planID, rawParams) ==
    LET none == Render(NoTemplate, DefaultCtx(credentials))
        pr   == ParamsCtx(rawParams)
    IN  IF catalog.nil THEN [err |-> "panic", dp |-> none, creds |-> credentials]
        ELSE IF planID \notin DOMAIN catalog.plans
        THEN [err |-> "UnknownPlan", dp |-> none, creds |-> credentials]
        ELSE IF ~catalog.plans[planID].hasMeta
        THEN [err |-> "panic", dp |-> none, creds |-> credentials]
        ELSE IF catalog.plans[planID].template.kind = "none"
        THEN [err |-> "notemplate", dp |-> none, creds |-> credentials]
        ELSE IF pr.err # "" THEN [err |-> pr.err, dp |-> none, creds |-> pr.ctx.creds]
        ELSE LET dp == Render(catalog.plans[planID].template, pr.ctx)
             IN  [err |-> dp.err, dp |-> dp, creds |-> pr.ctx.creds]

\* the switch on b.mode in getClient: resolves the group ID
resolveGroupID(instanceID, planID, rawParams, ctxAuth) ==
    CASE mode = "BasicAuth" ->
            Step(IF ctxAuth THEN "ctx" ELSE "noctx", <<>>, credentials, {})
      [] mode = "MultiGroup" ->
            LET g == getGroupIDByInstanceID(instanceID)
                pr == ParamsCtx(rawParams)
            IN  IF g.err # "" THEN Step(g.err, g.gid, credentials, {})
                ELSE IF g.gid # <<>> THEN Step("", g.gid, credentials, {})
                ELSE IF pr.err # "" THEN Step(pr.err, <<>>, pr.ctx.creds, {"params"})
                ELSE IF pr.ctx.projectID = <<>>
                THEN Step("MissingTenantReference", <<>>, pr.ctx.creds, {"params"})
                ELSE Step("", pr.ctx.projectID, pr.ctx.creds, {"params"})
      [] mode = "MultiGroupAutoPlans" ->
            LET g == findGroupIDByPlanID(planID)
            IN  Step(g.err, g.gid, credentials, {"plan"})
      [] mode = "DynamicPlans" ->
            LET g == getGroupIDByInstanceID(instanceID)
                pp == parsePlan(planID, rawParams)
            IN  IF g.err # "" THEN Step(g.err, g.gid, credentials, {})
                ELSE IF g.gid # <<>> THEN Step("", g.gid, credentials, {})
                ELSE IF pp.err # "" THEN Step(pp.err, <<>>, pp.creds, {"params", "plan"})
                ELSE IF ~pp.dp.hasProject
                THEN Step("MissingTenantReference", <<>>, pp.creds, {"params", "plan"})
                ELSE Step("", pp.dp.ProjectID, pp.creds, {"params", "plan"})

\* a lookup that falls back to another tenant's key pair
lookupKeysFallback(projects, gid) ==
    LET g == IF gid \in DOMAIN projects THEN gid ELSE CHOOSE x \in DOMAIN projects : TRUE
    IN  [err |-> "", keys |-> [PublicKey |-> projects[g].PublicKey,
                               PrivateKey |-> projects[g].PrivateKey]]

\* the credentials lookup that follows the switch: the key pair of the
\* client, or the fault "TenantNotFound"
lookupKeys(projects, gid) ==
    IF gid \in DOMAIN projects
    THEN [err |-> "", keys |-> [PublicKey |-> projects[gid].PublicKey,
                                PrivateKey |-> projects[gid].PrivateKey]]
    ELSE [err |-> "TenantNotFound", keys |-> NoKeys]

\* Broker.getClient: returns [err, gid, hasClient, keys, creds, used]
getClient(instanceID, planID, rawParams, ctxAuth) ==
    LET r == resolveGroupID(instanceID, planID, rawParams, ctxAuth)
        k == lookupKeys(r.creds, r.gid)
    IN  IF mode = "BasicAuth"
        THEN [err |-> IF ctxAuth THEN "" ELSE "noctx", gid |-> <<"c","t","x">>,
              hasClient |-> ctxAuth, keys |-> NoKeys, creds |-> r.creds, used |-> r.used]
        ELSE IF r.err # ""
        THEN [err |-> r.err, gid |-> r.gid, hasClient |-> FALSE, keys |-> NoKeys,
              creds |-> r.creds, used |-> r.used]
        ELSE [err |-> k.err, gid |-> r.gid, hasClient |-> k.err = "", keys |-> k.keys,
              creds |-> r.creds, used |-> r.used]

(* --------------------------- configurations --------------------------- *)

Key(desc, pub, priv) == [Desc |-> desc, PublicKey |-> pub, PrivateKey |-> priv]

CredsOne == (Gb :> Key(<<>>, "pub_b", "priv_b"))
CredsTwo == (Gb :> Key(DescAc, "pub_b", "priv_b")) @@ (Gab :> Key(<<>>, "pub_ab", "priv_ab"))

BackendPlain  == (AWS :> {M1, M2}) @@ (GCP :> {M1}) @@ (AZURE :> {M1})
BackendHyphen == (AWS :> {M1, M1a}) @@ (GCP :> {M1}) @@ (AZURE :> {M1})

NoWhitelist == [nil |-> TRUE, m |-> <<>>]
Whitelist(m) == [nil |-> FALSE, m |-> m]

\* "M1-b", the name of the auto-generated plan of size M1 and tenant b
M1b == <<"M","1","-","b">>

WhitelistAws    == Whitelist(AWS :> <<M1, M1b, PlanP>>)
WhitelistTenant == Whitelist(TENANT :> <<M2>>)
WhitelistBoth   == Whitelist((AWS :> <<M2, PlanQ>>) @@ (TENANT :> <<M5, M1>>))
WhitelistAwsGcp == Whitelist((AWS :> <<M1, M2, Planp>>) @@ (GCP :> <<M1, Planp>>))

Whitelists == {NoWhitelist, WhitelistAws, WhitelistTenant, WhitelistBoth, WhitelistAwsGcp}

TplAwsP   == Tpl("aws-p", "ok", PlanP, "fixed", AWS, M1, "fixed", Gb)
TplAnyp   == Tpl("any-p", "ok", Planp, "none", <<>>, M2, "empty", <<>>)
TplCtxQ   == Tpl("ctx-q", "ok", PlanQ, "ctx", <<>>, M1, "ctx", <<>>)
TplGcpQ   == Tpl("gcp-q", "ok", PlanQ, "fixed", GCP, M1, "nil", <<>>)
TplGhost  == Tpl("ghost", "ok", PlanP, "fixed", AZURE, M1, "fixed", Gzz)
TplNoSize == Tpl("nosize", "ok", PlanQ, "none", <<>>, <<>>, "nil", <<>>)
TplNoExec == Tpl("noexec", "execfail", PlanQ, "none", <<>>, M1, "nil", <<>>)
TplNoYaml == Tpl("noyaml", "decodefail", PlanQ, "none", <<>>, M1, "nil", <<>>)
TplNoCluster == [Tpl("nocluster", "ok", PlanQ, "none", <<>>, M1, "nil", <<>>)
                    EXCEPT !.cluster = FALSE]

TemplateSets ==
    { <<TplAwsP, TplGcpQ, TplGhost>>,
      <<TplAwsP, TplAnyp>>,
      <<TplNoExec, TplCtxQ, TplNoSize, TplNoYaml, TplNoCluster, TplAnyp>> }

Config(md, wl, cr, bk, tp) ==
    [mode |-> md, whitelist |-> wl, credentials |-> cr, backend |-> bk, templates |-> tp]

Configs ==
    {Config("BasicAuth", wl, CredsOne, bk, <<>>) :
        wl \in Whitelists, bk \in {BackendPlain, BackendHyphen}}
    \cup {Config("MultiGroup", wl, cr, BackendPlain, <<>>) :
        wl \in Whitelists, cr \in {CredsOne, CredsTwo}}
    \cup {Config("MultiGroupAutoPlans", wl, cr, bk, <<>>) :
        wl \in Whitelists, cr \in {CredsOne, CredsTwo}, bk \in {BackendPlain, BackendHyphen}}
    \cup {Config("DynamicPlans", wl, CredsOne, BackendPlain, tp) :
        wl \in Whitelists, tp \in TemplateSets}

\* the configurations of the brokers that are assembled without New
LiteralConfigs ==
    {Config("BasicAuth", WhitelistAwsGcp, CredsOne, BackendPlain, <<>>),
     Config("MultiGroup", WhitelistBoth, CredsOne, BackendPlain, <<>>),
     Config("MultiGroupAutoPlans", WhitelistAws, CredsTwo, BackendPlain, <<>>),
     Config("DynamicPlans", WhitelistAwsGcp, CredsOne, BackendPlain, <<TplAwsP, TplAnyp>>)}

(* ------------------------------ threads ------------------------------- *)

\* goroutine 0 runs New; the others serve requests
Main == 0
Requests == 1..NumRequests
Threads == {Main} \cup Requests

NoEmitted == [services |-> <<>>, plans |-> {}]

NoResult ==
    [op |-> "none", instance |-> "", planID |-> <<>>, raw |-> Raw("empty", <<>>),
     err |-> "", gid |-> <<>>, hasClient |-> FALSE, keys |-> NoKeys, used |-> {},
     services |-> <<>>]

NoQuery == [a |-> <<AWS, M1, <<>>>>, b |-> <<AWS, M1, <<>>>>, done |-> FALSE,
            ida |-> <<>>, idb |-> <<>>]

\* New(...) calls buildCatalog before the broker serves; a broker assembled
\* field by field starts with a nil catalog and builds it in Services.
Init ==
    /\ \E c \in Configs :
        /\ mode = c.mode
        /\ whitelist = c.whitelist
        /\ credentials = c.credentials
        /\ backend = c.backend
        /\ templates = c.templates
       /\ proc \in {"new"} \cup (IF c \in LiteralConfigs THEN {"literal"} ELSE {})
    /\ catalog = NilCatalog
    /\ pc = [t \in Threads |-> IF t = Main THEN (IF proc = "new" THEN "build" ELSE "done")
                               ELSE "idle"]
    /\ idx = [t \in Threads |-> 1]
    /\ emitted = [t \in Threads |-> NoEmitted]
    /\ fetches = [p \in FetchedProviders |-> 0]
    /\ builds = [started |-> 0, failed |-> 0, ok |-> 0]
    /\ built = {}
    /\ last = NoResult
    /\ idq = NoQuery

Serving == proc \in {"up", "literal"}

(* ---------------------------- buildCatalog ---------------------------- *)

\* b.catalog = newCatalog()
BuildStart(t) ==
    /\ pc[t] = "build"
    /\ proc \notin {"exited", "crashed"}
    /\ catalog' = newCatalog
    /\ idx' = [idx EXCEPT ![t] = 1]
    /\ emitted' = [emitted EXCEPT ![t] = NoEmitted]
    /\ pc' = [pc EXCEPT ![t] = "loop"]
    /\ builds' = [builds EXCEPT !.started = @ + 1]
    /\ UNCHANGED <<config, proc, fetches, built, last, idq>>

InLoop(t) ==
    /\ pc[t] = "loop"
    /\ proc \notin {"exited", "crashed"}
    /\ idx[t] <= Len(providerNames)

\* a loop that exempts the hardcoded shared service from the whitelist
SkippedButShared(providerName) ==
    ~whitelist.nil /\ providerName \notin DOMAIN whitelist.m /\ providerName # TENANT

\* whether the loop skips the provider: b.whitelist != nil && !isWhitelisted
Skipped(providerName) == ~whitelist.nil /\ providerName \notin DOMAIN whitelist.m

\* if b.whitelist != nil { svc.Plans = applyWhitelist(svc.Plans, whitelistedPlans) }
\* whitelistedPlans, isWhitelisted := b.whitelist[providerName]
WhitelistedPlans(providerName) ==
    IF providerName \in DOMAIN whitelist.m THEN whitelist.m[providerName] ELSE <<>>

Filtered(svc, providerName) ==
    IF whitelist.nil THEN svc
    ELSE [svc EXCEPT !.Plans = applyWhitelist(svc.Plans, WhitelistedPlans(providerName))]

\* the end of an iteration: index the plans, append the service
Publish(cat, svc) ==
    [cat EXCEPT !.plans = IndexPlans(cat.plans, svc.Plans),
                !.services = Append(cat.services, svc)]

\* what the running buildCatalog call has appended
Emit(e, svc) ==
    [services |-> Append(e.services, svc.ID),
     plans |-> e.plans \cup {svc.Plans[i].ID : i \in 1..Len(svc.Plans)}]

\* continue: the provider has no whitelist entry
BuildSkip(t) ==
    /\ InLoop(t)
    /\ Skipped(providerNames[idx[t]])
    /\ idx' = [idx EXCEPT ![t] = @ + 1]
    /\ UNCHANGED <<config, catalog, proc, pc, emitted, fetches, builds, built, last, idq>>

\* providerName == "TENANT": the hardcoded service, no backend call
BuildShared(t) ==
    /\ InLoop(t)
    /\ ~Skipped(providerNames[idx[t]])
    /\ providerNames[idx[t]] = TENANT
    /\ LET svc == Filtered(sharedService, TENANT)
       IN  /\ catalog' = Publish(catalog, svc)
           /\ emitted' = [emitted EXCEPT ![t] = Emit(@, svc)]
    /\ idx' = [idx EXCEPT ![t] = @ + 1]
    /\ UNCHANGED <<config, proc, pc, fetches, builds, built, last, idq>>

Fetching(t) ==
    /\ InLoop(t)
    /\ ~Skipped(providerNames[idx[t]])
    /\ providerNames[idx[t]] # TENANT

\* the result of a request thread's failed Services call
Failure(op, err) == [NoResult EXCEPT !.op = op, !.err = err]

\* GetProvider fails: buildCatalog returns the error. New ends the process
\* (logger.Fatalw); Services returns the error.
BuildFetchFail(t) ==
    /\ Fetching(t)
    /\ fetches' = [fetches EXCEPT ![providerNames[idx[t]]] = @ + 1]
    /\ builds' = [builds EXCEPT !.failed = @ + 1]
    /\ IF t = Main
       THEN /\ proc' = "exited"
            /\ pc' = [pc EXCEPT ![t] = "done"]
            /\ last' = last
       ELSE /\ proc' = proc
            /\ pc' = [pc EXCEPT ![t] = "idle"]
            /\ last' = Failure("Services", "fetch")
    /\ UNCHANGED <<config, catalog, idx, emitted, built, idq>>

\* GetProvider succeeds and buildPlansForProvider panics("not implemented")
BuildPanic(t) ==
    /\ Fetching(t)
    /\ PlansPanic
    /\ fetches' = [fetches EXCEPT ![providerNames[idx[t]]] = @ + 1]
    /\ IF t = Main
       THEN /\ proc' = "crashed"
            /\ pc' = [pc EXCEPT ![t] = "done"]
            /\ last' = last
       ELSE /\ proc' = proc
            /\ pc' = [pc EXCEPT ![t] = "idle"]
            /\ last' = Failure("Services", "panic")
    /\ UNCHANGED <<config, catalog, idx, emitted, builds, built, idq>>

\* GetProvider succeeds: buildService, providers[svc.ID] = *provider, the
\* whitelist, the plan index, the append
BuildProvider(t) ==
    /\ Fetching(t)
    /\ ~PlansPanic
    /\ fetches' = [fetches EXCEPT ![providerNames[idx[t]]] = @ + 1]
    /\ LET provider == Provider(providerNames[idx[t]])
       IN  \E sizeOrd \in Perms(provider.InstanceSizes) :
           \E projOrd \in [1..Len(sizeOrd) -> Perms(DOMAIN credentials)] :
              LET svc == Filtered(buildService(provider, sizeOrd, projOrd), provider.Name)
              IN  /\ catalog' = [Publish(catalog, svc) EXCEPT
                                    !.providers = @ \cup {serviceIDForProvider(provider.Name)}]
                  /\ emitted' = [emitted EXCEPT ![t] = Emit(@, svc)]
    /\ idx' = [idx EXCEPT ![t] = @ + 1]
    /\ UNCHANGED <<config, proc, pc, builds, built, last, idq>>

\* the loop is over: buildCatalog returns nil
BuildDone(t) ==
    /\ pc[t] = "loop"
    /\ proc \notin {"exited", "crashed"}
    /\ idx[t] > Len(providerNames)
    /\ built' = built \cup {emitted[t]}
    /\ builds' = [builds EXCEPT !.ok = @ + 1]
    /\ IF t = Main
       THEN /\ proc' = "up"
            /\ pc' = [pc EXCEPT ![t] = "done"]
       ELSE /\ proc' = proc
            /\ pc' = [pc EXCEPT ![t] = "ret"]
    /\ UNCHANGED <<config, catalog, idx, emitted, fetches, last, idq>>

(* ------------------------------ requests ------------------------------ *)

\* Services: if b.catalog == nil, buildCatalog
ServicesEnter(t) ==
    /\ t \in Requests
    /\ Serving
    /\ pc[t] = "idle"
    /\ pc' = [pc EXCEPT ![t] = IF catalog.nil THEN "build" ELSE "ret"]
    /\ UNCHANGED <<config, catalog, proc, idx, emitted, fetches, builds, built, last, idq>>

\* return b.catalog.services, nil
ServicesReturn(t) ==
    /\ t \in Requests
    /\ pc[t] = "ret"
    /\ last' = [NoResult EXCEPT !.op = "Services", !.services = catalog.services]
    /\ pc' = [pc EXCEPT ![t] = "idle"]
    /\ UNCHANGED <<config, catalog, proc, idx, emitted, fetches, builds, built, idq>>

\* the plan IDs a request may name: those of the catalog and one that no
\* catalog holds
UnknownPlanID == <<"n","o","-","s","u","c","h","-","p","l","a","n">>

PlanIDs == (IF catalog.nil THEN {} ELSE DOMAIN catalog.plans) \cup {UnknownPlanID}

\* the request context carries an Atlas client and a group ID only when the
\* broker authenticates with the caller's own keys (BasicAuth)
ContextAuth == IF mode = "BasicAuth" THEN BOOLEAN ELSE {FALSE}

\* getClient, as called by Provision, Bind, Unbind, Update, Deprovision,
\* of one request; Reply hands its result to the caller.
GetClient ==
    /\ Serving
    /\ last.op = "none"
    /\ \E instanceID \in Instances, planID \in PlanIDs, rawParams \in RawParams,
          ctxAuth \in ContextAuth :
          LET r == getClient(instanceID, planID, rawParams, ctxAuth)
          IN  /\ credentials' = r.creds
              /\ last' = [op |-> "getClient", instance |-> instanceID, planID |-> planID,
                          raw |-> rawParams, err |-> r.err, gid |-> r.gid,
                          hasClient |-> r.hasClient, keys |-> r.keys, used |-> r.used,
                          services |-> <<>>]
    /\ UNCHANGED <<mode, whitelist, backend, templates, catalog, proc, pc, idx, emitted,
                   fetches, builds, built, idq>>

Reply ==
    /\ last.op = "getClient"
    /\ last' = NoResult
    /\ UNCHANGED <<config, catalog, proc, pc, idx, emitted, fetches, builds, built, idq>>

(* --------------------------- specifications --------------------------- *)

Build(t) ==
    \/ BuildStart(t)
    \/ BuildSkip(t)
    \/ BuildShared(t)
    \/ BuildFetchFail(t)
    \/ BuildPanic(t)
    \/ BuildProvider(t)
    \/ BuildDone(t)

\* catalog construction and concurrent Services requests
Next ==
    \E t \in Threads :
        \/ Build(t)
        \/ ServicesEnter(t)
        \/ ServicesReturn(t)

Spec == Init /\ [][Next]_vars

\* construction by New, then instance-scoped requests, one at a time
NextResolve ==
    \/ Build(Main)
    \/ GetClient
    \/ Reply

SpecResolve == Init /\ [][NextResolve]_vars

(* ------------------------ plan ID computations ------------------------ *)

PlanIDArgs == {AWS, GCP} \X {M1, M2, M1a} \X {<<>>, Gb, Gab}

InitPlanID ==
    /\ mode = "BasicAuth"
    /\ whitelist = NoWhitelist
    /\ credentials = CredsOne
    /\ backend = BackendPlain
    /\ templates = <<>>
    /\ proc = "literal"
    /\ catalog = NilCatalog
    /\ pc = [t \in Threads |-> IF t = Main THEN "done" ELSE "idle"]
    /\ idx = [t \in Threads |-> 1]
    /\ emitted = [t \in Threads |-> NoEmitted]
    /\ fetches = [p \in FetchedProviders |-> 0]
    /\ builds = [started |-> 0, failed |-> 0, ok |-> 0]
    /\ built = {}
    /\ last = NoResult
    /\ \E a, b \in PlanIDArgs :
          idq = [a |-> a, b |-> b, done |-> FALSE, ida |-> <<>>, idb |-> <<>>]

\* two calls of planIDForInstanceSize
ComputePlanIDs ==
    /\ ~idq.done
    /\ idq' = [idq EXCEPT !.done = TRUE,
                          !.ida = planIDForInstanceSize(idq.a[1], idq.a[2], idq.a[3]),
                          !.idb = planIDForInstanceSize(idq.b[1], idq.b[2], idq.b[3])]
    /\ UNCHANGED <<config, catalog, proc, pc, idx, emitted, fetches, builds, built, last>>

SpecPlanID == InitPlanID /\ [][ComputePlanIDs]_vars

(* ----------------------- normalizeID computations --------------------- *)

\* an upper-case letter, a lower-case letter, a digit, the hyphen, and three
\* characters of the forbidden class, the underscore among them
NormalizeChars == {"A", "b", "1", "-", "_", " ", "."}

RECURSIVE StringsUpTo(_)
StringsUpTo(n) ==
    IF n = 0 THEN {<<>>}
    ELSE StringsUpTo(n - 1)
            \cup {Append(s, c) : s \in {x \in StringsUpTo(n - 1) : Len(x) = n - 1},
                                  c \in NormalizeChars}

InitNormalize ==
    /\ mode = "MultiGroupAutoPlans"
    /\ whitelist = NoWhitelist
    /\ credentials = CredsTwo
    /\ backend = BackendPlain
    /\ templates = <<>>
    /\ proc = "literal"
    /\ catalog = NilCatalog
    /\ pc = [t \in Threads |-> IF t = Main THEN "done" ELSE "idle"]
    /\ idx = [t \in Threads |-> 1]
    /\ emitted = [t \in Threads |-> NoEmitted]
    /\ fetches = [p \in FetchedProviders |-> 0]
    /\ builds = [started |-> 0, failed |-> 0, ok |-> 0]
    /\ built = {}
    /\ last = NoResult
    /\ \E x \in StringsUpTo(MaxLen) :
          idq = [a |-> x, b |-> x, done |-> FALSE, ida |-> <<>>, idb |-> <<>>]

\* normalizeID of a string, and normalizeID of the result
ComputeNormalize ==
    /\ ~idq.done
    /\ idq' = [idq EXCEPT !.done = TRUE,
                          !.ida = normalizeID(idq.a),
                          !.idb = normalizeID(normalizeID(idq.a))]
    /\ UNCHANGED <<config, catalog, proc, pc, idx, emitted, fetches, builds, built, last>>

SpecNormalize == InitNormalize /\ [][ComputeNormalize]_vars

(* ------------------------------ claims -------------------------------- *)

\* the provider a service of the catalog belongs to
ProviderOf(svc) == CHOOSE p \in Range(providerNames) : serviceIDForProvider(p) = svc.ID

PlanSet(plans) == {plans[i] : i \in 1..Len(plans)}

\* the plans of every service of the catalog, in catalog order
AllPlans == ConcatAll([i \in 1..Len(catalog.services) |-> catalog.services[i].Plans])

\* C1: concurrent Services calls on an unbuilt catalog build it at most once:
\* no provider is fetched from the backend more than once and at most one
\* buildCatalog call is started.
C1_SingleBuild ==
    /\ \A p \in FetchedProviders : fetches[p] <= 1
    /\ builds.started <= 1

\* C2: when every buildCatalog call of a serving broker has failed on a provider
\* fetch, the broker's catalog holds no service and no plan, and no Services call has
\* returned a service list as a success.
C2_NoPartialCatalog ==
    (Serving /\ builds.failed >= 1 /\ builds.started = builds.failed) =>
        /\ catalog.services = <<>>
        /\ DOMAIN catalog.plans = {}
        /\ ~(last.op = "Services" /\ last.err = "" /\ last.services # <<>>)

\* C3: in the catalog every service ID and every plan ID is unique, and the
\* plan lookup holds one entry per emitted plan.
C3_UniqueIDs ==
    /\ \A i, j \in 1..Len(catalog.services) :
          catalog.services[i].ID = catalog.services[j].ID => i = j
    /\ \A i, j \in 1..Len(AllPlans) : AllPlans[i].ID = AllPlans[j].ID => i = j
    /\ Cardinality(DOMAIN catalog.plans) = Len(AllPlans)

\* C4: planIDForInstanceSize is injective over (provider, instance size,
\* tenant): distinct triples yield distinct IDs, identical triples the same ID.
C4_PlanIDInjective ==
    idq.done => ((idq.a = idq.b) <=> (idq.ida = idq.idb))

\* the plans the mode's strategy generates for a provider, in one of the
\* orders the map iterations allow
GeneratedPlans(p) ==
    IF p = TENANT THEN sharedService.Plans
    ELSE LET sizeOrd == CHOOSE o \in Perms(backend[p]) : TRUE
             projOrd == [i \in 1..Len(sizeOrd) |-> CHOOSE o \in Perms(DOMAIN credentials) : TRUE]
         IN  buildPlansForProvider(Provider(p), sizeOrd, projOrd)

Whitelisted(p, plan) == plan.Name \in Range(whitelist.m[p])

\* C5: with a whitelist, the catalog has no service of a provider without an
\* entry (TENANT included) and each service keeps exactly the generated plans
\* whose name is whitelisted for its provider; without a whitelist every
\* service keeps every generated plan; a broker that New has built has a
\* service for every provider that is not left out.
C5_Whitelist ==
    /\ \A i \in 1..Len(catalog.services) :
          LET svc == catalog.services[i]
              p   == ProviderOf(svc)
              gen == GeneratedPlans(p)
          IN  IF whitelist.nil
              THEN /\ PlanSet(svc.Plans) = PlanSet(gen)
                   /\ Len(svc.Plans) = Len(gen)
              ELSE /\ p \in DOMAIN whitelist.m
                   /\ PlanSet(svc.Plans) = {g \in PlanSet(gen) : Whitelisted(p, g)}
                   /\ Len(svc.Plans) = Len(SelectSeq(gen, LAMBDA g : Whitelisted(p, g)))
    /\ proc = "up" =>
          {ProviderOf(catalog.services[i]) : i \in 1..Len(catalog.services)}
             = {p \in Range(providerNames) : whitelist.nil \/ p \in DOMAIN whitelist.m}

\* a built catalog from which the whitelist removed a provider and a plan
C5_Witness ==
    /\ proc = "up"
    /\ ~whitelist.nil
    /\ Len(catalog.services) < Len(providerNames)
    /\ \E i \in 1..Len(catalog.services) :
          /\ Len(catalog.services[i].Plans) > 0
          /\ Len(catalog.services[i].Plans)
                < Len(GeneratedPlans(ProviderOf(catalog.services[i])))

\* whether the request that returned last was for a new instance whose
\* parameters (MultiGroup) or rendered plan (DynamicPlans) name no tenant
DeclaresNoTenant ==
    IF mode = "MultiGroup"
    THEN ParamsCtx(last.raw).err = "" /\ ParamsCtx(last.raw).ctx.projectID = <<>>
    ELSE parsePlan(last.planID, last.raw).err = ""
            /\ parsePlan(last.planID, last.raw).dp.ProjectID = <<>>

\* C6: in MultiGroup and DynamicPlans modes getClient returns the tenant the
\* instance's metadata records, reading neither parameters nor plan; for an
\* instance without metadata whose parameters or rendered plan name no tenant
\* it fails with the missing-tenant-reference fault and returns no client.
C6_TenantResolution ==
    (last.op = "getClient" /\ mode \in {"MultiGroup", "DynamicPlans"}) =>
        LET st == getInstanceState(last.instance)
        IN  /\ (st.err = "" /\ st.hasGroupID /\ st.groupID # <<>>) =>
                  (last.gid = st.groupID /\ last.used = {})
            /\ (st.err = "ErrNoDocuments" /\ DeclaresNoTenant) =>
                  (last.err = "MissingTenantReference" /\ ~last.hasClient)

\* C7: outside BasicAuth a client is returned only for a tenant that is a key
\* of Credentials.Projects and is built from that tenant's key pair; a tenant
\* without a credential entry yields a failure and no client.
C7_OwnCredentials ==
    (last.op = "getClient" /\ mode # "BasicAuth") =>
        /\ (last.err = "" <=> last.hasClient)
        /\ last.hasClient =>
              /\ last.gid \in DOMAIN credentials
              /\ last.keys = [PublicKey |-> credentials[last.gid].PublicKey,
                              PrivateKey |-> credentials[last.gid].PrivateKey]
        /\ last.gid \notin DOMAIN credentials =>
              /\ ~last.hasClient
              /\ last.err # ""
              /\ last.keys = NoKeys

\* getClient succeeded for a tenant it resolved
C7_Witness ==
    /\ last.op = "getClient"
    /\ mode # "BasicAuth"
    /\ last.hasClient
    /\ last.gid = Gb
    /\ last.keys.PublicKey = "pub_b"

AutoName(size, g) ==
    size \o <<"-">> \o (IF credentials[g].Desc # <<>> THEN normalizeID(credentials[g].Desc) ELSE g)

\* C9: in MultiGroupAutoPlans mode (no whitelist) the service of a fetched
\* provider has exactly one plan per (instance size, tenant) pair, named after
\* the size and the tenant, and getClient with the ID of such a plan resolves
\* to the tenant the plan was generated for.
C9_AutoPlans ==
    (mode = "MultiGroupAutoPlans" /\ whitelist.nil) =>
        /\ \A i \in 1..Len(catalog.services) :
              LET svc == catalog.services[i]
                  p   == ProviderOf(svc)
              IN  p # TENANT =>
                    /\ Len(svc.Plans) = Cardinality(backend[p]) * Cardinality(DOMAIN credentials)
                    /\ \A size \in backend[p], g \in DOMAIN credentials :
                          \E k \in 1..Len(svc.Plans) :
                             /\ svc.Plans[k].instanceSize = size
                             /\ svc.Plans[k].groupID = g
                             /\ svc.Plans[k].Name = AutoName(size, g)
        /\ last.op = "getClient" =>
              \A k \in 1..Len(AllPlans) :
                 (AllPlans[k].ID = last.planID /\ AllPlans[k].hasGroupID) =>
                    (last.err = "" /\ last.gid = AllPlans[k].groupID)

\* the service IDs of the providers the whitelist lets through, in the
\* enumeration order AWS, GCP, AZURE, TENANT
ExpectedServiceIDs ==
    LET kept == SelectSeq(<<AWS, GCP, AZURE, TENANT>>,
                          LAMBDA p : whitelist.nil \/ p \in DOMAIN whitelist.m)
    IN  [i \in 1..Len(kept) |-> idPrefix \o <<"-","s","e","r","v","i","c","e","-">>
                                  \o ToLower(kept[i])]

\* C10: every buildCatalog call that returns nil has appended the services of
\* the providers in the order AWS, GCP, AZURE, TENANT, and all such calls of
\* one configuration have produced the same service IDs and the same set of
\* plan IDs.
C10_Deterministic ==
    /\ \A e \in built : e.services = ExpectedServiceIDs
    /\ Cardinality(built) <= 1

\* two buildCatalog calls have returned nil and have visited the instance
\* sizes of a provider in different orders
C10_Witness ==
    /\ builds.ok >= 2
    /\ \E i, j \in 1..Len(catalog.services) :
          /\ catalog.services[i].ID = catalog.services[j].ID
          /\ catalog.services[i].Plans # catalog.services[j].Plans

\* what the normalisation of x is to be: a character of [A-Za-z0-9-] gives its
\* lower-case form, the first character of a maximal run of other characters
\* gives "_", the rest of the run gives nothing
NormalForm(x) ==
    LET starts == SelectSeq([i \in 1..Len(x) |-> i],
                            LAMBDA i : \/ AllowedChar(x[i])
                                       \/ i = 1
                                       \/ AllowedChar(x[i - 1]))
    IN  [k \in 1..Len(starts) |->
            IF AllowedChar(x[starts[k]]) THEN ToLowerChar(x[starts[k]]) ELSE "_"]

\* C11: normalizeID is idempotent, its output holds only lower-case letters,
\* digits, "-" and "_", and it is the input lower-cased with every maximal run
\* of characters outside [A-Za-z0-9-] replaced by one "_".
C11_NormalizeIdempotent ==
    idq.done =>
        /\ idq.idb = idq.ida
        /\ \A i \in 1..Len(idq.ida) :
              idq.ida[i] \in Range(LowerChars) \cup Digits \cup {"-", "_"}
        /\ idq.ida = NormalForm(idq.a)

\* a string with an upper-case letter and a run of two forbidden characters,
\* one of them the underscore, has been normalised
C11_Witness ==
    /\ idq.done
    /\ \E i \in 1..Len(idq.a) : idq.a[i] \in Range(UpperChars)
    /\ \E i \in 1..(Len(idq.a) - 1) :
          /\ idq.a[i] = "_"
          /\ ~AllowedChar(idq.a[i + 1])
    /\ Len(idq.ida) < Len(idq.a)

\* whether a template renders and decodes to a plan that has
\* cluster.providerSettings.instanceSizeName
WellFormed(tpl) == tpl.kind = "ok" /\ tpl.cluster /\ tpl.size # <<>>

\* whether a template names a provider other than p
NamesOther(tpl, p) == tpl.provFrom = "fixed" /\ tpl.provider # p

\* the names of the templates behind the plans of a service, in order
TemplatesOf(svc) == [k \in 1..Len(svc.Plans) |-> svc.Plans[k].template.tname]

\* the names of the templates that are to give a plan of provider p
ExpectedTemplates(p) ==
    LET kept == SelectSeq(templates,
                    LAMBDA t : /\ WellFormed(t)
                               /\ ~NamesOther(t, p)
                               /\ (whitelist.nil \/ t.planName \in Range(whitelist.m[p])))
    IN  [k \in 1..Len(kept) |-> kept[k].tname]

\* C12: in DynamicPlans mode a template that fails to render, fails to decode
\* or lacks cluster.providerSettings.instanceSizeName gives no plan and does
\* not abort the build: the plans of a fetched provider's service are those of
\* the other templates, in template order.
C12_SkipBadTemplates ==
    mode = "DynamicPlans" =>
        /\ proc # "crashed"
        /\ last.err # "panic"
        /\ \A i \in 1..Len(catalog.services) :
              LET svc == catalog.services[i]
              IN  ProviderOf(svc) # TENANT =>
                    /\ TemplatesOf(svc) = ExpectedTemplates(ProviderOf(svc))
                    /\ \A k \in 1..Len(svc.Plans) : WellFormed(svc.Plans[k].template)

\* New has built a catalog from a template set in which a template that does
\* not render, one that does not decode and two without an instance size name
\* stand before and between the templates that gave the plans of a service
C12_Witness ==
    /\ mode = "DynamicPlans"
    /\ proc = "up"
    /\ \E a, b, c, d \in 1..Len(templates) :
          /\ templates[a].kind = "execfail"
          /\ templates[b].kind = "decodefail"
          /\ templates[c].kind = "ok" /\ ~WellFormed(templates[c])
          /\ a < c /\ c < b /\ b < d
          /\ \E i \in 1..Len(catalog.services) :
                /\ Len(catalog.services[i].Plans) = 2
                /\ catalog.services[i].Plans[2].template = templates[d]
                /\ \E e \in (a + 1)..(c - 1) :
                      catalog.services[i].Plans[1].template = templates[e]

\* whether the whitelist lets a plan of provider p with this name through
LetThrough(p, planName) ==
    whitelist.nil \/ (p \in DOMAIN whitelist.m /\ planName \in Range(whitelist.m[p]))

\* C13: in DynamicPlans mode a well-formed template that names a provider
\* gives no plan in the service of any other provider and gives a plan in the
\* service of the provider it names; once New has built the catalog, that
\* service is there for every fetched provider the whitelist lets through.
C13_ProviderMismatch ==
    mode = "DynamicPlans" =>
        \A n \in 1..Len(templates) :
            LET t == templates[n]
            IN  (WellFormed(t) /\ t.provFrom = "fixed") =>
                  /\ \A i \in 1..Len(catalog.services) :
                        LET svc == catalog.services[i]
                            p   == ProviderOf(svc)
                        IN  /\ p # t.provider => t.tname \notin Range(TemplatesOf(svc))
                            /\ (p = t.provider /\ LetThrough(p, t.planName)) =>
                                  t.tname \in Range(TemplatesOf(svc))
                  /\ (proc = "up" /\ t.provider \in FetchedProviders
                        /\ LetThrough(t.provider, t.planName)) =>
                        \E i \in 1..Len(catalog.services) :
                           /\ catalog.services[i].ID = serviceIDForProvider(t.provider)
                           /\ t.tname \in Range(TemplatesOf(catalog.services[i]))

\* New has built a catalog in which the service of the first provider lacks
\* the plan of a template that names the second provider, and the service of
\* the second provider, processed later, has it
C13_Witness ==
    /\ mode = "DynamicPlans"
    /\ proc = "up"
    /\ \E n \in 1..Len(templates) :
          /\ WellFormed(templates[n])
          /\ templates[n].provFrom = "fixed"
          /\ templates[n].provider = GCP
          /\ \E i, j \in 1..Len(catalog.services) :
                /\ i < j
                /\ ProviderOf(catalog.services[i]) = AWS
                /\ Len(catalog.services[i].Plans) > 0
                /\ templates[n].tname \notin Range(TemplatesOf(catalog.services[i]))
                /\ ProviderOf(catalog.services[j]) = GCP
                /\ templates[n].tname \in Range(TemplatesOf(catalog.services[j]))

\* C14: in MultiGroup mode, whatever the whitelist, no buildCatalog call
\* returns nil and New never hands out a broker with a catalog.
C14_MultiGroupUnsupported ==
    mode = "MultiGroup" => (builds.ok = 0 /\ proc # "up")

\* whether the instance store answers for the instance of the last request:
\* with no document (a new instance) or with a document that records a tenant
StoreAnswers ==
    LET st == getInstanceState(last.instance)
    IN  st.err = "ErrNoDocuments" \/ (st.err = "" /\ st.hasGroupID)

\* C15: in MultiGroupAutoPlans mode and in DynamicPlans mode, for a new and
\* for an already provisioned instance alike, getClient with a plan ID that
\* the plan lookup of the built catalog lacks fails with the unknown-plan
\* fault and returns no client.
C15_UnknownPlan ==
    (/\ last.op = "getClient"
     /\ mode \in {"MultiGroupAutoPlans", "DynamicPlans"}
     /\ ~catalog.nil
     /\ last.planID \notin DOMAIN catalog.plans
     /\ (mode = "DynamicPlans" => StoreAnswers)) =>
        (last.err = "UnknownPlan" /\ ~last.hasClient)

\* C16: a Services call that returns a service list returns the service of
\* every provider a finished build contains, never the list of a catalog
\* that a buildCatalog call is still filling.
C16_NoPartialRead ==
    (last.op = "Services" /\ last.err = "") =>
        \A k \in 1..Len(ExpectedServiceIDs) :
            \E i \in 1..Len(last.services) : last.services[i].ID = ExpectedServiceIDs[k]

====
